---- MODULE Spec2Model ----
(***************************************************************************)
(* Model of the snake game of src/src/main.rs: the grid arithmetic, the    *)
(* Direction enum, the Snake (head, body deque, two-slot direction buffer) *)
(* and the GameState event handlers `update` and `key_down_event`.         *)
(*                                                                         *)
(* The ggez host delivers events serially, so each handler is one atomic   *)
(* action.  The random generator is abstracted to a nondeterministic       *)
(* choice over the values rand_range can return.  The 30 x 20 grid of      *)
(* GRID_SIZE is scaled down to GridW x GridH, and the snake's growth is    *)
(* capped at MaxLen, to keep the state space finite and small.  GRID_SIZE  *)
(* is a compile-time constant: the model carries it in the variable grid,  *)
(* which no action changes, so that the same handlers can also be run on   *)
(* a grid with two even dimensions (SpecEven).                             *)
(***************************************************************************)
EXTENDS Integers, Sequences, FiniteSets

\* Scaled-down grid dimensions (GRID_SIZE.0, GRID_SIZE.1) and model bounds.
GridW == 4
GridH == 3
MaxLen == 3
MaxOwed == 1

VARIABLES snake, food, gameover, grid

vars == <<snake, food, gameover, grid>>

\* const GRID_SIZE: (i16, i16)
GRID_SIZE == grid

\* enum Direction
Direction == {"Up", "Down", "Left", "Right"}

\* Option::None (for next_dir, ate and from_keycode)
None == "None"

\* The key codes the host can deliver; only the four arrows decode to a
\* direction.
KeyCode == {"KeyUp", "KeyDown", "KeyLeft", "KeyRight", "KeySpace"}

\* Variant of rem_euclid that is Rust's truncating remainder `%`: negative
\* for a negative left operand.
rem_truncating(a, n) == IF a < 0 THEN 0 - ((0 - a) % n) ELSE a % n

\* i16::rem_euclid for a positive modulus: the non-negative remainder.
rem_euclid(a, n) == ((a % n) + n) % n

\* GridPosition::new
GridPosition(x, y) == [x |-> x, y |-> y]

\* Variant of random whose ranges include the upper limit (0..=max).
random_inclusive(max_x, max_y) == {GridPosition(x, y) : x \in 0..max_x, y \in 0..max_y}

\* GridPosition::random: rand_range(0..max_x), rand_range(0..max_y); the
\* set of positions a call may return.
random(max_x, max_y) == {GridPosition(x, y) : x \in 0..(max_x - 1), y \in 0..(max_y - 1)}

\* Variant of new_from_move whose Down case wraps at the width instead of
\* the height.
new_from_move_wrong_axis(pos, dir) ==
    CASE dir = "Up"    -> GridPosition(pos.x, rem_euclid(pos.y - 1, GRID_SIZE[2]))
      [] dir = "Down"  -> GridPosition(pos.x, rem_euclid(pos.y + 1, GRID_SIZE[1]))
      [] dir = "Left"  -> GridPosition(rem_euclid(pos.x - 1, GRID_SIZE[1]), pos.y)
      [] dir = "Right" -> GridPosition(rem_euclid(pos.x + 1, GRID_SIZE[1]), pos.y)

\* GridPosition::new_from_move
new_from_move(pos, dir) ==
    CASE dir = "Up"    -> GridPosition(pos.x, rem_euclid(pos.y - 1, GRID_SIZE[2]))
      [] dir = "Down"  -> GridPosition(pos.x, rem_euclid(pos.y + 1, GRID_SIZE[2]))
      [] dir = "Left"  -> GridPosition(rem_euclid(pos.x - 1, GRID_SIZE[1]), pos.y)
      [] dir = "Right" -> GridPosition(rem_euclid(pos.x + 1, GRID_SIZE[1]), pos.y)

\* Variant of inverse that maps Left to itself.
inverse_left_fixed(d) ==
    CASE d = "Up"    -> "Down"
      [] d = "Down"  -> "Up"
      [] d = "Left"  -> "Left"
      [] d = "Right" -> "Left"

\* Direction::inverse
inverse(d) ==
    CASE d = "Up"    -> "Down"
      [] d = "Down"  -> "Up"
      [] d = "Left"  -> "Right"
      [] d = "Right" -> "Left"

\* Direction::from_keycode
from_keycode(key) ==
    CASE key = "KeyUp"    -> "Up"
      [] key = "KeyDown"  -> "Down"
      [] key = "KeyLeft"  -> "Left"
      [] key = "KeyRight" -> "Right"
      [] OTHER            -> None

\* Snake::new
SnakeNew(pos) ==
    [head            |-> pos,
     dir             |-> "Right",
     last_update_dir |-> "Right",
     body            |-> <<GridPosition(pos.x - 1, pos.y)>>,
     ate             |-> None,
     next_dir        |-> None]

\* Snake::eats_food
eats_food(s, f) == s.head = f

\* Variant of eats_self that compares the head with the first body segment
\* only.
eats_self_front_only(s) == Len(s.body) >= 1 /\ s.head = s.body[1]

\* Variant of eats_self that leaves out the last body segment (the tail).
eats_self_skip_tail(s) == \E i \in 1..(Len(s.body) - 1) : s.head = s.body[i]

\* Snake::eats_self
eats_self(s) == \E i \in 1..Len(s.body) : s.head = s.body[i]

\* Variant of pop_back that removes the front segment instead.
pop_front(q) == SubSeq(q, 2, Len(q))

\* VecDeque::pop_back
pop_back(q) == SubSeq(q, 1, Len(q) - 1)

\* Variant of Snake::update that promotes next_dir whenever it is set.
SnakeUpdate_always_promote(s, f) ==
    LET promote == s.next_dir # None
        dir1    == IF promote THEN s.next_dir ELSE s.dir
        next1   == IF promote THEN None ELSE s.next_dir
        moved   == [s EXCEPT !.dir = dir1,
                             !.next_dir = next1,
                             !.body = <<s.head>> \o s.body,
                             !.head = new_from_move(s.head, dir1)]
        ate1    == IF eats_self(moved) THEN "Itself"
                   ELSE IF eats_food(moved, f) THEN "Food"
                   ELSE None
    IN  [moved EXCEPT !.ate = ate1,
                      !.body = IF ate1 = None THEN pop_back(moved.body) ELSE moved.body,
                      !.last_update_dir = dir1]

\* Variant of Snake::update that does not clear next_dir on promotion.
SnakeUpdate_keep_next_dir(s, f) ==
    LET promote == s.last_update_dir = s.dir /\ s.next_dir # None
        dir1    == IF promote THEN s.next_dir ELSE s.dir
        next1   == s.next_dir
        moved   == [s EXCEPT !.dir = dir1,
                             !.next_dir = next1,
                             !.body = <<s.head>> \o s.body,
                             !.head = new_from_move(s.head, dir1)]
        ate1    == IF eats_self(moved) THEN "Itself"
                   ELSE IF eats_food(moved, f) THEN "Food"
                   ELSE None
    IN  [moved EXCEPT !.ate = ate1,
                      !.body = IF ate1 = None THEN pop_back(moved.body) ELSE moved.body,
                      !.last_update_dir = dir1]

\* Variant of Snake::update that tests the food before the body.
SnakeUpdate_food_first(s, f) ==
    LET promote == s.last_update_dir = s.dir /\ s.next_dir # None
        dir1    == IF promote THEN s.next_dir ELSE s.dir
        next1   == IF promote THEN None ELSE s.next_dir
        moved   == [s EXCEPT !.dir = dir1,
                             !.next_dir = next1,
                             !.body = <<s.head>> \o s.body,
                             !.head = new_from_move(s.head, dir1)]
        ate1    == IF eats_food(moved, f) THEN "Food"
                   ELSE IF eats_self(moved) THEN "Itself"
                   ELSE None
    IN  [moved EXCEPT !.ate = ate1,
                      !.body = IF ate1 = None THEN pop_back(moved.body) ELSE moved.body,
                      !.last_update_dir = dir1]

\* Variant of Snake::update that pops the tail whatever the outcome.
SnakeUpdate_always_pop(s, f) ==
    LET promote == s.last_update_dir = s.dir /\ s.next_dir # None
        dir1    == IF promote THEN s.next_dir ELSE s.dir
        next1   == IF promote THEN None ELSE s.next_dir
        moved   == [s EXCEPT !.dir = dir1,
                             !.next_dir = next1,
                             !.body = <<s.head>> \o s.body,
                             !.head = new_from_move(s.head, dir1)]
        ate1    == IF eats_self(moved) THEN "Itself"
                   ELSE IF eats_food(moved, f) THEN "Food"
                   ELSE None
    IN  [moved EXCEPT !.ate = ate1,
                      !.body = pop_back(moved.body),
                      !.last_update_dir = dir1]

\* Snake::update
SnakeUpdate(s, f) ==
    LET promote == s.last_update_dir = s.dir /\ s.next_dir # None
        dir1    == IF promote THEN s.next_dir ELSE s.dir
        next1   == IF promote THEN None ELSE s.next_dir
        moved   == [s EXCEPT !.dir = dir1,
                             !.next_dir = next1,
                             !.body = <<s.head>> \o s.body,
                             !.head = new_from_move(s.head, dir1)]
        ate1    == IF eats_self(moved) THEN "Itself"
                   ELSE IF eats_food(moved, f) THEN "Food"
                   ELSE None
    IN  [moved EXCEPT !.ate = ate1,
                      !.body = IF ate1 = None THEN pop_back(moved.body) ELSE moved.body,
                      !.last_update_dir = dir1]

\* Variant of the input handling whose first branch overwrites dir instead
\* of buffering the request in next_dir.
handle_direction_input_no_buffer(s, d) ==
    IF s.dir # s.last_update_dir /\ inverse(d) # s.dir
    THEN [s EXCEPT !.dir = d]
    ELSE IF inverse(d) # s.last_update_dir
         THEN [s EXCEPT !.dir = d]
         ELSE s

\* Variant of the input handling without the buffer: any request that is
\* not the inverse of dir overwrites dir.
handle_direction_input_naive(s, d) ==
    IF inverse(d) # s.dir
    THEN [s EXCEPT !.dir = d]
    ELSE s

\* Variant of the input handling whose second branch lacks the reversal
\* test.
handle_direction_input_no_reversal_test(s, d) ==
    IF s.dir # s.last_update_dir /\ inverse(d) # s.dir
    THEN [s EXCEPT !.next_dir = d]
    ELSE [s EXCEPT !.dir = d]

\* The body of GameState::key_down_event once the key is decoded.
handle_direction_input(s, d) ==
    IF s.dir # s.last_update_dir /\ inverse(d) # s.dir
    THEN [s EXCEPT !.next_dir = d]
    ELSE IF inverse(d) # s.last_update_dir
         THEN [s EXCEPT !.dir = d]
         ELSE s

\* GameState as a record, for the operators below.
GameState(s, f, g) == [snake |-> s, food |-> f, gameover |-> g]

\* The current GameState.
gs == GameState(snake, food, gameover)

\* GameState::new
GameStateNew ==
    {GameState(SnakeNew(GridPosition(GRID_SIZE[1] \div 4, GRID_SIZE[2] \div 2)), fp, FALSE) :
        fp \in random(GRID_SIZE[1], GRID_SIZE[2])}

\* Variant of the loop iteration whose Ate::Itself arm does not set
\* gameover.
UpdateIter_never_over(g) ==
    IF g.gameover
    THEN {g}
    ELSE LET s1 == SnakeUpdate(g.snake, g.food)
         IN  CASE s1.ate = "Food" ->
                    {GameState(s1, p, g.gameover) : p \in random(GRID_SIZE[1], GRID_SIZE[2])}
               [] OTHER ->
                    {GameState(s1, g.food, g.gameover)}

\* Variant of the loop iteration that lacks the `if !self.gameover` test.
UpdateIter_no_gameover_test(g) ==
    LET s1 == SnakeUpdate(g.snake, g.food)
    IN  CASE s1.ate = "Food" ->
               {GameState(s1, p, g.gameover) : p \in random(GRID_SIZE[1], GRID_SIZE[2])}
          [] s1.ate = "Itself" ->
               {GameState(s1, g.food, TRUE)}
          [] OTHER ->
               {GameState(s1, g.food, g.gameover)}

\* One iteration of the while loop of EventHandler::update: the set of
\* states it can end in (one per value the random generator may return).
UpdateIter(g) ==
    IF g.gameover
    THEN {g}
    ELSE LET s1 == SnakeUpdate(g.snake, g.food)
         IN  CASE s1.ate = "Food" ->
                    {GameState(s1, p, g.gameover) : p \in random(GRID_SIZE[1], GRID_SIZE[2])}
               [] s1.ate = "Itself" ->
                    {GameState(s1, g.food, TRUE)}
               [] OTHER ->
                    {GameState(s1, g.food, g.gameover)}

\* n iterations of the while loop, from any state of the set G.
RECURSIVE UpdateLoop(_, _)
UpdateLoop(G, n) ==
    IF n = 0 THEN G
    ELSE UpdateLoop(UNION {UpdateIter(g) : g \in G}, n - 1)

\* Length of the snake: head plus body.
SnakeLen(s) == 1 + Len(s.body)

\* Variant of key_down_event that ignores the keys once the game is over.
KeyDownResult_frozen(g, key) ==
    LET d == from_keycode(key)
    IN  IF d # None /\ ~g.gameover
        THEN [g EXCEPT !.snake = handle_direction_input(g.snake, d)]
        ELSE g

\* The result of key_down_event on a game state.
KeyDownResult(g, key) ==
    LET d == from_keycode(key)
    IN  IF d # None
        THEN [g EXCEPT !.snake = handle_direction_input(g.snake, d)]
        ELSE g

\* The state after GameState::new on a grid of the given size.
InitOn(size) ==
    /\ grid = size
    /\ \E g \in GameStateNew :
          /\ snake = g.snake
          /\ food = g.food
          /\ gameover = g.gameover

\* The scaled-down grid.
Init == InitOn(<<GridW, GridH>>)

\* The smallest grid whose dimensions are both even and at least 4, as
\* those of the 30 x 20 grid are.
EvenGrid == <<4, 4>>

InitEven == InitOn(EvenGrid)

\* EventHandler::update: check_update_time grants n owed ticks.  The guard
\* on the length is the cap of the model: the snake does not grow beyond
\* MaxLen segments by eating food (a final self-collision adds one more).
update ==
    \E n \in 1..MaxOwed :
        \E g \in UpdateLoop({gs}, n) :
            /\ SnakeLen(g.snake) <= MaxLen + (IF g.gameover THEN 1 ELSE 0)
            /\ snake' = g.snake
            /\ food' = g.food
            /\ gameover' = g.gameover
            /\ grid' = grid

\* EventHandler::key_down_event
key_down_event ==
    \E key \in KeyCode :
        LET g == KeyDownResult(gs, key)
        IN  /\ snake' = g.snake
            /\ food' = g.food
            /\ gameover' = g.gameover
            /\ grid' = grid

Next == update \/ key_down_event

Spec == Init /\ [][Next]_vars

\* The same handlers on the even grid.
SpecEven == InitEven /\ [][Next]_vars

(***************************************************************************)
(* Vocabulary of the properties.                                           *)
(***************************************************************************)

\* The positions of a sequence of segments.
Cells(q) == {q[i] : i \in 1..Len(q)}

\* No two segments of the sequence are at the same position.
NoDuplicates(q) == \A i, j \in 1..Len(q) : i # j => q[i] # q[j]

\* The direction the next tick applies: the buffered one when it is promoted.
AppliedDir == IF snake.dir = snake.last_update_dir /\ snake.next_dir # None
              THEN snake.next_dir ELSE snake.dir

\* The cell the head enters in the next tick.
NewHead == new_from_move(snake.head, AppliedDir)

\* The body as it is when the collision test runs: old head pushed in front.
PushedBody == <<snake.head>> \o snake.body

\* The key codes that decode to direction d.
KeysOf(d) == {key \in KeyCode : from_keycode(key) = d}

(***************************************************************************)
(* C1: the direction a tick moves the head in is never the inverse of the  *)
(* direction the preceding tick moved it in.  Stated on the next tick of   *)
(* every reachable state in which a tick would run: last_update_dir holds  *)
(* the direction of the preceding tick (before the first tick it is the    *)
(* initial Right, and no first tick moves Left).  The code violates it: a  *)
(* stale next_dir is promoted after dir was set to its inverse.            *)
(***************************************************************************)
C1_NoDirectReversal ==
    ~gameover =>
        SnakeUpdate(snake, food).last_update_dir # inverse(snake.last_update_dir)

(***************************************************************************)
(* C2: [head] + body has no two segments at the same position unless the   *)
(* outcome of the most recent tick is AteSelf.                             *)
(***************************************************************************)
C2_NoDuplicateSegments ==
    NoDuplicates(<<snake.head>> \o snake.body) \/ snake.ate = "Itself"

\* A grown snake that moved without eating: all its cells are distinct.
C2_Witness ==
    /\ SnakeLen(snake) >= 3
    /\ snake.ate = None
    /\ ~gameover
    /\ Cardinality(Cells(<<snake.head>> \o snake.body)) = SnakeLen(snake)

(***************************************************************************)
(* C3: once gameover is true, an update of any number of owed ticks (one  *)
(* tick, or several in one catch-up loop) leaves the snake (head, body,    *)
(* dir, last_update_dir, next_dir, ate), the food and gameover unchanged.  *)
(***************************************************************************)
C3_FrozenAfterGameOver ==
    gameover => \A n \in 1..(MaxOwed + 1) : UpdateLoop({gs}, n) = {gs}

\* The game is over, by a tick whose outcome was AteSelf.
C3_Witness ==
    /\ gameover
    /\ snake.ate = "Itself"
    /\ snake.head \in Cells(snake.body)

(***************************************************************************)
(* C4 as stated: from dir = last_update_dir = Right, the inputs Up then    *)
(* Left give dir = Up and next_dir = Left, and ONE tick later dir = Left,  *)
(* next_dir is empty and the head was moved Up.  The code does not promote *)
(* in that tick.                                                           *)
(***************************************************************************)
C4_PromotedAfterOneTick ==
    (~gameover /\ snake.dir = "Right" /\ snake.last_update_dir = "Right") =>
        LET g1 == KeyDownResult(gs, "KeyUp")
            g2 == KeyDownResult(g1, "KeyLeft")
        IN  /\ g2.snake.dir = "Up"
            /\ g2.snake.next_dir = "Left"
            /\ \A g3 \in UpdateIter(g2) :
                  /\ g3.snake.head = new_from_move(snake.head, "Up")
                  /\ g3.snake.dir = "Left"
                  /\ g3.snake.next_dir = None

(***************************************************************************)
(* C4 amended: from dir = last_update_dir = Right (game not over), the     *)
(* inputs Up then Left give dir = Up and next_dir = Left; the next tick    *)
(* moves the head Up and leaves dir = Up and next_dir = Left; the tick     *)
(* after it (if the game is not over) moves the head Left, sets dir = Left *)
(* and clears next_dir.                                                    *)
(***************************************************************************)
C4_PromotedAfterTwoTicks ==
    (~gameover /\ snake.dir = "Right" /\ snake.last_update_dir = "Right") =>
        LET g1 == KeyDownResult(gs, "KeyUp")
            g2 == KeyDownResult(g1, "KeyLeft")
        IN  /\ g2.snake.dir = "Up"
            /\ g2.snake.next_dir = "Left"
            /\ \A g3 \in UpdateIter(g2) :
                  /\ g3.snake.head = new_from_move(snake.head, "Up")
                  /\ g3.snake.dir = "Up"
                  /\ g3.snake.last_update_dir = "Up"
                  /\ g3.snake.next_dir = "Left"
                  /\ ~g3.gameover =>
                        \A g4 \in UpdateIter(g3) :
                            /\ g4.snake.head = new_from_move(g3.snake.head, "Left")
                            /\ g4.snake.dir = "Left"
                            /\ g4.snake.next_dir = None

\* The state after Up, Left and one tick: Up applied, Left still buffered.
C4_Witness ==
    /\ ~gameover
    /\ snake.dir = "Up"
    /\ snake.last_update_dir = "Up"
    /\ snake.next_dir = "Left"
    /\ snake.body[1] = new_from_move(snake.head, "Down")

(***************************************************************************)
(* C5 as stated: whenever last_update_dir = d, a request for inverse(d)    *)
(* changes neither dir nor next_dir.  The code buffers the request in      *)
(* next_dir when dir already differs from last_update_dir.                 *)
(***************************************************************************)
C5_ReversalHasNoEffect ==
    \A key \in KeysOf(inverse(snake.last_update_dir)) :
        LET g1 == KeyDownResult(gs, key)
        IN  /\ g1.snake.dir = snake.dir
            /\ g1.snake.next_dir = snake.next_dir

(***************************************************************************)
(* C5 amended: whenever last_update_dir = d, a request for inverse(d)      *)
(* never changes dir; it leaves next_dir unchanged too when                *)
(* dir = last_update_dir, and is stored in next_dir when dir differs from  *)
(* last_update_dir.                                                        *)
(***************************************************************************)
C5_ReversalNeverSetsDir ==
    \A key \in KeysOf(inverse(snake.last_update_dir)) :
        LET g1 == KeyDownResult(gs, key)
        IN  /\ g1.snake.dir = snake.dir
            /\ snake.dir = snake.last_update_dir =>
                  g1.snake.next_dir = snake.next_dir
            /\ snake.dir # snake.last_update_dir =>
                  g1.snake.next_dir = inverse(snake.last_update_dir)
            /\ g1 = [gs EXCEPT !.snake.next_dir = g1.snake.next_dir]

\* A committed direction other than the initial one, after some ticks.
C5_Witness ==
    /\ snake.dir = "Down"
    /\ snake.last_update_dir = "Down"
    /\ snake.next_dir = None
    /\ SnakeLen(snake) >= 3
(***************************************************************************)
(* C6: a request for the direction the snake already has (dir = d)         *)
(* leaves the whole state unchanged.  The code violates it when dir        *)
(* differs from last_update_dir: line 329 tests inverse(d) # dir where its *)
(* comment asks for d # dir, and the repeated request is stored in         *)
(* next_dir.                                                               *)
(***************************************************************************)
C6_RepeatedRequestIsNoOp ==
    \A key \in KeysOf(snake.dir) : KeyDownResult(gs, key) = gs

(***************************************************************************)
(* C7: a tick run while the game is not over whose new head cell is        *)
(* neither a body cell nor the food cell has outcome None, keeps the       *)
(* length, moves the head one cell (with wraparound) in the applied        *)
(* direction, puts the old head at the front of body, removes the old      *)
(* tail, and leaves food and gameover unchanged.                           *)
(***************************************************************************)
C7_PlainMove ==
    (~gameover /\ NewHead \notin Cells(PushedBody) /\ NewHead # food) =>
        \A g \in UpdateIter(gs) :
            /\ g.snake.ate = None
            /\ SnakeLen(g.snake) = SnakeLen(snake)
            /\ g.snake.head = NewHead
            /\ g.snake.head # snake.head
            /\ g.snake.body[1] = snake.head
            /\ \A i \in 2..Len(snake.body) : g.snake.body[i] = snake.body[i - 1]
            /\ g.food = food
            /\ g.gameover = FALSE

\* A snake of three or more segments about to make a plain move that
\* wraps around the left edge.
C7_Witness ==
    /\ ~gameover
    /\ SnakeLen(snake) >= 3
    /\ snake.head.x = 0
    /\ AppliedDir = "Left"
    /\ NewHead \notin Cells(PushedBody)
    /\ NewHead # food

(***************************************************************************)
(* C8: a tick run while the game is not over whose new head cell is the    *)
(* food cell and no body cell has outcome AteFood, grows the snake by      *)
(* exactly one segment (the tail stays), keeps gameover false, and the     *)
(* food is then placed on a cell inside the grid.                          *)
(***************************************************************************)
C8_EatFood ==
    (~gameover /\ NewHead = food /\ NewHead \notin Cells(PushedBody)) =>
        \A g \in UpdateIter(gs) :
            /\ g.snake.ate = "Food"
            /\ SnakeLen(g.snake) = SnakeLen(snake) + 1
            /\ g.snake.head = NewHead
            /\ g.snake.body = <<snake.head>> \o snake.body
            /\ g.gameover = FALSE
            /\ g.food.x \in 0..(GRID_SIZE[1] - 1)
            /\ g.food.y \in 0..(GRID_SIZE[2] - 1)

\* The snake has just eaten: it kept its tail and the game goes on.
C8_Witness ==
    /\ ~gameover
    /\ snake.ate = "Food"
    /\ SnakeLen(snake) >= 3

(***************************************************************************)
(* C9: a tick run while the game is not over whose new head cell is the    *)
(* cell of any segment of body after the old head was pushed (the tail     *)
(* cell included) has outcome AteSelf, keeps the tail, and sets gameover   *)
(* in that same tick.                                                      *)
(***************************************************************************)
C9_EatSelf ==
    (~gameover /\ NewHead \in Cells(PushedBody)) =>
        \A g \in UpdateIter(gs) :
            /\ g.snake.ate = "Itself"
            /\ g.snake.head = NewHead
            /\ g.snake.body = <<snake.head>> \o snake.body
            /\ g.gameover = TRUE

\* The snake is about to enter the cell of its own tail, which is not the
\* cell of any other segment.
C9_Witness ==
    /\ ~gameover
    /\ SnakeLen(snake) >= 3
    /\ NewHead = snake.body[Len(snake.body)]
    /\ \A i \in 1..(Len(snake.body) - 1) : NewHead # snake.body[i]

(***************************************************************************)
(* C10: when dir = last_update_dir and next_dir is set, the tick moves the *)
(* head in next_dir and leaves next_dir empty; in every other case it      *)
(* moves the head in dir and leaves next_dir as it was.  In both cases     *)
(* last_update_dir = dir after the tick.                                   *)
(***************************************************************************)
C10_Promotion ==
    ~gameover =>
        LET s1 == SnakeUpdate(snake, food)
        IN  /\ IF snake.dir = snake.last_update_dir /\ snake.next_dir # None
               THEN /\ s1.head = new_from_move(snake.head, snake.next_dir)
                    /\ s1.dir = snake.next_dir
                    /\ s1.next_dir = None
               ELSE /\ s1.head = new_from_move(snake.head, snake.dir)
                    /\ s1.dir = snake.dir
                    /\ s1.next_dir = snake.next_dir
            /\ s1.last_update_dir = s1.dir

\* A tick is about to promote a buffered direction that differs from dir.
C10_Witness ==
    /\ ~gameover
    /\ snake.dir = snake.last_update_dir
    /\ snake.next_dir \in Direction \ {snake.dir}
    /\ SnakeLen(snake) >= 3
\* The cells of the grid.
InGrid(p) == p.x \in 0..(GRID_SIZE[1] - 1) /\ p.y \in 0..(GRID_SIZE[2] - 1)

(***************************************************************************)
(* C11: the head, every body segment and the food are inside the grid      *)
(* (x in [0, grid_width), y in [0, grid_height)); new_from_move of an      *)
(* in-grid position is in-grid for all four directions, wrapping 0 - 1 to  *)
(* dimension - 1 and dimension - 1 + 1 to 0.  The positions moved are the  *)
(* head and the food of each reachable state: the food of the initial      *)
(* states alone ranges over every cell of the grid.                        *)
(***************************************************************************)
C11_InGrid ==
    /\ InGrid(snake.head)
    /\ \A i \in 1..Len(snake.body) : InGrid(snake.body[i])
    /\ InGrid(food)
    /\ \A p \in {snake.head, food} :
          /\ \A d \in Direction : InGrid(new_from_move(p, d))
          /\ new_from_move(p, "Left").x = (IF p.x = 0 THEN GRID_SIZE[1] - 1 ELSE p.x - 1)
          /\ new_from_move(p, "Right").x = (IF p.x = GRID_SIZE[1] - 1 THEN 0 ELSE p.x + 1)
          /\ new_from_move(p, "Up").y = (IF p.y = 0 THEN GRID_SIZE[2] - 1 ELSE p.y - 1)
          /\ new_from_move(p, "Down").y = (IF p.y = GRID_SIZE[2] - 1 THEN 0 ELSE p.y + 1)

\* The head has just wrapped from the top row to the bottom row.
C11_Witness ==
    /\ snake.last_update_dir = "Up"
    /\ snake.head.y = GRID_SIZE[2] - 1
    /\ snake.body[1].y = 0
    /\ snake.body[1].x = snake.head.x

(***************************************************************************)
(* C12: movement is invertible: for every in-grid position p (the head and *)
(* the food of every reachable state; the food of the initial states       *)
(* alone ranges over every cell) and every direction d,                    *)
(* new_from_move(new_from_move(p, d), inverse(d)) = p, the grid dimensions *)
(* being greater than 1.                                                   *)
(***************************************************************************)
C12_MoveInvertible ==
    (GRID_SIZE[1] > 1 /\ GRID_SIZE[2] > 1) =>
        \A p \in {snake.head, food} :
            \A d \in Direction :
                new_from_move(new_from_move(p, d), inverse(d)) = p

\* The head has just wrapped around the left edge: moving back Right from
\* it gives the cell it left.
C12_Witness ==
    /\ snake.last_update_dir = "Left"
    /\ snake.head.x = GRID_SIZE[1] - 1
    /\ snake.body[1].x = 0
    /\ new_from_move(snake.head, inverse("Left")) = snake.body[1]

(***************************************************************************)
(* C13: inverse is an involution without fixed points on the four          *)
(* directions (those the snake holds in dir and last_update_dir among      *)
(* them): inverse(inverse(d)) = d and inverse(d) # d, pairing Up with Down *)
(* and Left with Right.                                                    *)
(***************************************************************************)
C13_InverseInvolution ==
    /\ \A d \in Direction \cup {snake.dir, snake.last_update_dir} :
          /\ inverse(d) \in Direction
          /\ inverse(inverse(d)) = d
          /\ inverse(d) # d
    /\ inverse("Up") = "Down"
    /\ inverse("Left") = "Right"

\* The snake has turned twice and moves Left, the inverse of its initial
\* direction.
C13_Witness ==
    /\ snake.dir = "Left"
    /\ snake.last_update_dir = "Left"
    /\ inverse(snake.dir) = "Right"
    /\ ~gameover
(***************************************************************************)
(* C14: a direction input never changes head, body, food, ate,             *)
(* last_update_dir or gameover, and what it does to dir and next_dir is    *)
(* the same whether gameover is true or false (so dir and next_dir can     *)
(* still change after game over).                                          *)
(***************************************************************************)
C14_InputIgnoresGameOver ==
    \A key \in KeyCode :
        LET g1    == KeyDownResult(gs, key)
            other == KeyDownResult([gs EXCEPT !.gameover = ~gameover], key)
        IN  /\ g1.snake.head = snake.head
            /\ g1.snake.body = snake.body
            /\ g1.snake.ate = snake.ate
            /\ g1.snake.last_update_dir = snake.last_update_dir
            /\ g1.food = food
            /\ g1.gameover = gameover
            /\ g1.snake.dir = other.snake.dir
            /\ g1.snake.next_dir = other.snake.next_dir

\* The game is over (the last tick left dir = last_update_dir) and inputs
\* have since changed dir and filled next_dir.
C14_Witness ==
    /\ gameover
    /\ snake.dir # snake.last_update_dir
    /\ snake.next_dir # None

(***************************************************************************)
(* C15: self-collision takes precedence over food: a tick whose new head   *)
(* cell is both a body cell and the food cell has outcome AteSelf, sets    *)
(* gameover, and does not relocate the food.                               *)
(***************************************************************************)
C15_SelfBeforeFood ==
    (~gameover /\ NewHead \in Cells(PushedBody) /\ NewHead = food) =>
        \A g \in UpdateIter(gs) :
            /\ g.snake.ate = "Itself"
            /\ g.gameover = TRUE
            /\ g.food = food
            /\ g.snake.head = food

\* The food lies under the tail and the head is about to enter that cell.
C15_Witness ==
    /\ ~gameover
    /\ food = snake.body[Len(snake.body)]
    /\ NewHead = food
    /\ snake.ate = "Food"

(***************************************************************************)
(* C16: a request X that the input handler buffers (dir already differs    *)
(* from last_update_dir and X is not the inverse of dir) is stored in      *)
(* next_dir; with no further input, the next tick moves the head in the    *)
(* direction already set and keeps X buffered, and, if the game is not     *)
(* over after it, the tick after it moves the head in X and clears         *)
(* next_dir.                                                               *)
(***************************************************************************)
C16_BufferedUsedAfterNext ==
    (~gameover /\ snake.dir # snake.last_update_dir) =>
    \A key \in KeyCode :
        LET X  == from_keycode(key)
            g1 == KeyDownResult(gs, key)
        IN  (X # None /\ inverse(X) # snake.dir) =>
                /\ g1.snake.next_dir = X
                /\ g1.snake.dir = snake.dir
                /\ \A g2 \in UpdateIter(g1) :
                      /\ g2.snake.head = new_from_move(snake.head, snake.dir)
                      /\ g2.snake.next_dir = X
                      /\ ~g2.gameover =>
                            \A g3 \in UpdateIter(g2) :
                                /\ g3.snake.head = new_from_move(g2.snake.head, X)
                                /\ g3.snake.dir = X
                                /\ g3.snake.next_dir = None

\* A request is buffered behind a direction change no tick has used yet.
C16_Witness ==
    /\ ~gameover
    /\ snake.dir # snake.last_update_dir
    /\ snake.next_dir \in Direction \ {snake.dir}
    /\ SnakeLen(snake) >= 3
(***************************************************************************)
(* C17: dir is never the inverse of last_update_dir: no input stores in    *)
(* dir a reversal of the last applied direction, and                       *)
(* dir = last_update_dir right after every executed tick.                  *)
(***************************************************************************)
C17_DirNotInverseOfLast ==
    /\ snake.dir # inverse(snake.last_update_dir)
    /\ \A key \in KeyCode :
          KeyDownResult(gs, key).snake.dir # inverse(snake.last_update_dir)
    /\ ~gameover =>
          \A g \in UpdateIter(gs) : g.snake.dir = g.snake.last_update_dir

\* An input has turned the grown snake and no tick has used the turn yet.
C17_Witness ==
    /\ ~gameover
    /\ snake.dir # snake.last_update_dir
    /\ snake.next_dir = None
    /\ SnakeLen(snake) >= 3

(***************************************************************************)
(* C18: body is never empty and the snake has at least 2 segments; the     *)
(* length never decreases: an executed tick changes it by 0 when the       *)
(* outcome is None and by exactly +1 when it is AteFood or AteSelf, and a  *)
(* direction input does not change it.                                     *)
(***************************************************************************)
C18_LengthMonotone ==
    /\ Len(snake.body) >= 1
    /\ SnakeLen(snake) >= 2
    /\ ~gameover =>
          \A g \in UpdateIter(gs) :
              SnakeLen(g.snake) = SnakeLen(snake) + (IF g.snake.ate = None THEN 0 ELSE 1)
    /\ \A g \in UpdateIter(gs) : SnakeLen(g.snake) >= SnakeLen(snake)
    /\ \A key \in KeyCode : SnakeLen(KeyDownResult(gs, key).snake) = SnakeLen(snake)

\* The snake grew by eating food and once more by the fatal tick.
C18_Witness ==
    /\ SnakeLen(snake) = MaxLen + 1
    /\ snake.ate = "Itself"

(***************************************************************************)
(* C19: gameover is true exactly when the snake's stored outcome is        *)
(* AteSelf; it starts false, only a tick with outcome AteSelf sets it, and *)
(* neither a tick nor an input resets it.                                  *)
(***************************************************************************)
C19_GameOverIffAteSelf ==
    /\ gameover <=> (snake.ate = "Itself")
    /\ \A g \in GameStateNew : g.gameover = FALSE
    /\ \A g \in UpdateIter(gs) :
          g.gameover = (gameover \/ g.snake.ate = "Itself")
    /\ \A key \in KeyCode : KeyDownResult(gs, key).gameover = gameover

\* Right after the fatal tick: the outcome is AteSelf and the game is over.
C19_Witness ==
    /\ gameover
    /\ snake.ate = "Itself"
    /\ snake.dir = snake.last_update_dir
    /\ snake.next_dir = None
(***************************************************************************)
(* C20: on a grid whose dimensions are both even and at least 4, a tick    *)
(* that starts with a snake of fewer than 4 segments never has outcome     *)
(* AteSelf (and so never ends the game).  The code violates it through the *)
(* reversal of C1: a snake of 2 segments that moves Down and then Up       *)
(* enters the cell it has just left.                                       *)
(***************************************************************************)
C20_ShortSnakeNeverCollides ==
    (/\ GRID_SIZE[1] >= 4 /\ GRID_SIZE[1] % 2 = 0
     /\ GRID_SIZE[2] >= 4 /\ GRID_SIZE[2] % 2 = 0
     /\ ~gameover
     /\ SnakeLen(snake) < 4) =>
        \A g \in UpdateIter(gs) :
            /\ g.snake.ate # "Itself"
            /\ ~g.gameover
====
